---- MODULE Spec2Model ----
(***************************************************************************)
(* A model of src/main.py: the HTTP handler process_denuncias (the         *)
(* Pipeline Runner with the Record Enricher inlined in its loop) and       *)
(* synthesize_and_extract (the Extractor).                                 *)
(*                                                                         *)
(* Texts are sequences of characters; a JSON document inside a model       *)
(* response is one block of the sequence (its characters are not spelled   *)
(* out, its length and its parse are given by BlockLen and BlockValue).    *)
(* Error messages are sequences of words, so that the test                 *)
(* "429" in str(e) is a search for the word "429".  Every Python string is *)
(* such a sequence; None where a string is expected, and the JSON value    *)
(* true, are the reserved texts PyNone and PyTrue.                         *)
(*                                                                         *)
(* The source collection is revealed document by document as the stream    *)
(* yields it: the first pad documents have no transcript, the following    *)
(* ones (at most MaxTail) are drawn from TailDocs, and the stream may end  *)
(* after any of those.  The padding brings the batch to its limit.         *)
(*                                                                         *)
(* Spec is one request with a model that may answer anything; SpecExtract  *)
(* is one call of the Extractor for any arguments; SpecTwice is two runs   *)
(* over one source collection with a model fixed as a function of the      *)
(* prompt, the second run reading again what the first one read.           *)
(***************************************************************************)
EXTENDS Integers, Sequences, FiniteSets, TLC

\* ------------------------------------------------------------------ bounds

\* the largest number of arbitrary documents after the padding
MaxTail == 2

\* ------------------------------------------------------- program constants

BATCH_LIMIT == 400
max_retries == 3
INITIAL_RETRY_DELAY == 5
PACING_DELAY == 2
FENCE_OPEN_LEN == 7
FENCE_CLOSE_LEN == 3

SOURCE_COLLECTION == "denuncias"
DEST_COLLECTION == "Síntesis de denuncias"

\* every Python string is a text: a sequence of characters or words
PyNone == <<"<None>">>
PyTrue == <<"<True>">>
Absent == <<"<absent>">>

\* ------------------------------------------------------------ text helpers

Whitespace == {" ", "\n", "\t"}

\* the backquote character
BQ == "<backquote>"

FenceOpen == <<BQ, BQ, BQ, "j", "s", "o", "n">>
FenceClose == <<BQ, BQ, BQ>>

StartsWith(s, p) == Len(s) >= Len(p) /\ SubSeq(s, 1, Len(p)) = p

EndsWith(s, p) == Len(s) >= Len(p) /\ SubSeq(s, Len(s) - Len(p) + 1, Len(s)) = p

RECURSIVE LStrip(_)
LStrip(s) == IF s # <<>> /\ Head(s) \in Whitespace THEN LStrip(Tail(s)) ELSE s

RECURSIVE RStrip(_)
RStrip(s) ==
    IF s # <<>> /\ s[Len(s)] \in Whitespace THEN RStrip(SubSeq(s, 1, Len(s) - 1)) ELSE s

Strip(s) == RStrip(LStrip(s))

\* response.text.strip() and the removal of the code fence
CleanContent(text) ==
    LET c0 == Strip(text)
        c1 == IF StartsWith(c0, FenceOpen) THEN SubSeq(c0, FENCE_OPEN_LEN + 1, Len(c0)) ELSE c0
    IN  IF EndsWith(c1, FenceClose) THEN SubSeq(c1, 1, Len(c1) - FENCE_CLOSE_LEN) ELSE c1

\* ------------------------------------------------------------------- JSON

AnnotationKeys == {"sintesis", "tiempo", "modo", "circunstancia", "alcaldia", "es_anonima"}

FullObject(anon) ==
    [type |-> "dict",
     d |-> [sintesis |-> <<"resumen">>, tiempo |-> <<"03/03/2025">>, modo |-> <<"efectivo">>,
            circunstancia |-> <<"licitacion">>, alcaldia |-> <<"San Juan">>,
            es_anonima |-> anon]]

\* the JSON documents a response may hold
ValidBlocks == {"{SI}", "{si}", "{NO}", "{tal vez}", "{partial}", "{true}", "{}", "null", "[1]"}
TruncatedBlocks == {"{cut1", "{cut429"}
Blocks == ValidBlocks \cup TruncatedBlocks

BlockValue(b) ==
    CASE b = "{SI}" -> FullObject(<<"SI">>)
      [] b = "{si}" -> FullObject(<<"si">>)
      [] b = "{NO}" -> FullObject(<<"NO">>)
      [] b = "{tal vez}" -> FullObject(<<"tal vez">>)
      [] b = "{true}" -> FullObject(PyTrue)
      [] b = "{partial}" -> [type |-> "dict", d |-> [sintesis |-> <<"resumen">>]]
      [] b = "{}" -> [type |-> "dict", d |-> <<>>]
      [] b = "null" -> [type |-> "None"]
      [] b = "[1]" -> [type |-> "list"]

\* the number of characters of a block; for a truncated block, where it breaks off
BlockLen(b) ==
    CASE b = "{cut1" -> 1
      [] b = "{cut429" -> 429
      [] b = "{}" -> 2
      [] b = "null" -> 4
      [] b = "[1]" -> 3
      [] OTHER -> 120

\* what the decoder expected where a truncated block breaks off
BlockReason(b) ==
    IF b = "{cut1"
    THEN <<"Expecting", "property", "name", "enclosed", "in", "double", "quotes:">>
    ELSE <<"Expecting", "','", "delimiter:">>

RECURSIVE CharLen(_)
CharLen(s) ==
    IF s = <<>> THEN 0
    ELSE (IF Head(s) \in Blocks THEN BlockLen(Head(s)) ELSE 1) + CharLen(Tail(s))

CountNewlines(s) == Cardinality({i \in DOMAIN s : s[i] = "\n"})

LastNewline(s) ==
    LET nl == {i \in DOMAIN s : s[i] = "\n"}
    IN  IF nl = {} THEN 0 ELSE CHOOSE i \in nl : \A j \in nl : j <= i

\* str(JSONDecodeError): "<reason>: line L column C (char P)", the error being at
\* the end of the first k elements of content, plus off characters
DecodeError(reason, content, k, off) ==
    LET before == SubSeq(content, 1, k)
        pos == CharLen(before) + off
        col == CharLen(SubSeq(before, LastNewline(before) + 1, k)) + off + 1
    IN  reason \o <<"line", ToString(CountNewlines(before) + 1), "column", ToString(col),
                    "(char", ToString(pos), ")">>

\* json.loads(content): [ok |-> TRUE, value |-> v] or [ok |-> FALSE, msg |-> str(e)]
JsonLoads(content) ==
    LET lead == Len(content) - Len(LStrip(content))
        body == LStrip(content)
    IN  IF body = <<>> \/ Head(body) \notin Blocks
        THEN [ok |-> FALSE, msg |-> DecodeError(<<"Expecting", "value:">>, content, lead, 0)]
        ELSE IF Head(body) \in TruncatedBlocks
        THEN [ok |-> FALSE,
              msg |-> DecodeError(BlockReason(Head(body)), content, lead,
                                  BlockLen(Head(body)))]
        ELSE IF LStrip(Tail(body)) # <<>>
        THEN [ok |-> FALSE,
              msg |-> DecodeError(<<"Extra", "data:">>, content,
                                  Len(content) - Len(LStrip(Tail(body))), 0)]
        ELSE [ok |-> TRUE, value |-> BlockValue(Head(body))]

\* Python truthiness of what json.loads returned
Truthy(v) == v.type = "list" \/ (v.type = "dict" /\ DOMAIN v.d # {})

\* dict.get(key, default)
Get(d, key, default) == IF key \in DOMAIN d THEN d[key] ELSE default

\* str.upper(), word by word on the words of the model
UpperWord(w) ==
    CASE w = "si" -> "SI"
      [] w = "Si" -> "SI"
      [] w = "no" -> "NO"
      [] w = "tal vez" -> "TAL VEZ"
      [] w = "Error" -> "ERROR"
      [] OTHER -> w

Upper(s) == [i \in DOMAIN s |-> UpperWord(s[i])]

\* d[key] = value
Put(d, key, value) == [k \in DOMAIN d \cup {key} |-> IF k = key THEN value ELSE d[k]]

\* "429" in str(e)
Has429(msg) == \E i \in DOMAIN msg : msg[i] = "429"

\* ------------------------------------------------------------------ dates

Digits == {"0", "1", "2", "3", "4", "5", "6", "7", "8", "9"}

DigitValue(c) ==
    CASE c = "0" -> 0 [] c = "1" -> 1 [] c = "2" -> 2 [] c = "3" -> 3 [] c = "4" -> 4
      [] c = "5" -> 5 [] c = "6" -> 6 [] c = "7" -> 7 [] c = "8" -> 8 [] c = "9" -> 9

RECURSIVE NumberOf(_)
NumberOf(s) == IF s = <<>> THEN 0 ELSE NumberOf(SubSeq(s, 1, Len(s) - 1)) * 10 + DigitValue(s[Len(s)])

AllDigits(s) == s # <<>> /\ \A i \in DOMAIN s : s[i] \in Digits

IsLeap(y) == y % 4 = 0 /\ (y % 100 # 0 \/ y % 400 = 0)

DaysInMonth(y, m) ==
    IF m = 2 THEN (IF IsLeap(y) THEN 29 ELSE 28)
    ELSE IF m \in {4, 6, 9, 11} THEN 30 ELSE 31

RECURSIVE DaysBeforeMonth(_, _)
DaysBeforeMonth(y, m) == IF m = 1 THEN 0 ELSE DaysBeforeMonth(y, m - 1) + DaysInMonth(y, m - 1)

\* date.toordinal(): 01/01/0001 is day 1
Ordinal(y, m, d) ==
    LET y1 == y - 1
    IN  y1 * 365 + (y1 \div 4) - (y1 \div 100) + (y1 \div 400) + DaysBeforeMonth(y, m) + d

\* datetime.strptime(report_date, "%m/%d/%Y"): [ok |-> TRUE, y, m, d] or [ok |-> FALSE]
Strptime(s) ==
    LET slashes == {i \in DOMAIN s : s[i] = "/"}
    IN  IF Cardinality(slashes) # 2 THEN [ok |-> FALSE]
        ELSE LET i1 == CHOOSE i \in slashes : \A j \in slashes : i <= j
                 i2 == CHOOSE i \in slashes : \A j \in slashes : j <= i
                 ms == SubSeq(s, 1, i1 - 1)
                 ds == SubSeq(s, i1 + 1, i2 - 1)
                 ys == SubSeq(s, i2 + 1, Len(s))
             IN  IF /\ AllDigits(ms) /\ Len(ms) <= 2 /\ NumberOf(ms) \in 1..12
                    /\ AllDigits(ds) /\ Len(ds) <= 2 /\ NumberOf(ds) >= 1
                    /\ AllDigits(ys) /\ Len(ys) = 4 /\ NumberOf(ys) >= 1
                    /\ NumberOf(ds) <= DaysInMonth(NumberOf(ys), NumberOf(ms))
                 THEN [ok |-> TRUE, y |-> NumberOf(ys), m |-> NumberOf(ms), d |-> NumberOf(ds)]
                 ELSE [ok |-> FALSE]

days == <<"Lunes", "Martes", "Miércoles", "Jueves", "Viernes", "Sábado", "Domingo">>

\* the week starts on Sunday
Weekday_SundayFirst(dt) == Ordinal(dt.y, dt.m, dt.d) % 7

\* dt.weekday(): Monday is 0
Weekday(dt) == (Ordinal(dt.y, dt.m, dt.d) + 6) % 7

\* the weekday label of the prompt
DayOfWeekStr(report_date) ==
    LET dt == Strptime(report_date)
    IN  IF dt.ok THEN days[Weekday(dt) + 1] ELSE "Desconocido"

DATE_DEFAULT == <<"Fecha desconocida">>
DATE_MONDAY == <<"0", "3", "/", "1", "0", "/", "2", "0", "2", "5">>
DATE_LEAP == <<"2", "/", "2", "9", "/", "2", "0", "2", "4">>
DATE_NO_SUCH_DAY == <<"0", "2", "/", "3", "0", "/", "2", "0", "2", "5">>
DATE_ISO == <<"2", "0", "2", "5", "-", "0", "3", "-", "1", "0">>

\* ------------------------------------------------------------ the world

\* what model.generate_content(prompt) may do: raise, or answer with a text
Bare(b) == <<b>>
Wrapped(open, b) == open \o <<"\n", b, "\n">> \o FenceClose
Fenced(b) == Wrapped(FenceOpen, b)

\* the JSON objects among the documents
ObjectBlocks == {b \in ValidBlocks : BlockValue(b).type = "dict"}

ModelErrors == {<<"429", "Resource", "exhausted">>, <<"500", "Internal", "error">>}

ResponseTexts ==
    {Bare(b) : b \in Blocks}
        \cup {Fenced(b) : b \in ObjectBlocks \cup {"{cut429"}}
        \cup {Wrapped(FenceClose, b) : b \in {"{SI}", "{}"}}
        \cup {<<"Lo siento">>, <<" ", "{si}", "\n">>}

ModelOutcomes ==
    {[kind |-> "raise", msg |-> m] : m \in ModelErrors}
        \cup {[kind |-> "text", text |-> t] : t \in ResponseTexts}

\* a model that answers the same prompt the same way: the prompt is made of the
\* transcript and the report date, the answer is one outcome
Prompts == {<<"texto">>} \X {DATE_DEFAULT, DATE_MONDAY}

FixedOutcomes ==
    {[kind |-> "raise", msg |-> m] : m \in ModelErrors}
        \cup {[kind |-> "text", text |-> t] :
                t \in {Bare("{SI}"), Fenced("{NO}"), Bare("{}"), Bare("{cut1")}}

FixedModels == [Prompts -> FixedOutcomes]

\* a model that may answer anything
AnyModel == <<>>

\* what the model may do with the prompt made of t and d
Answers(m, t, d) == IF m = AnyModel THEN ModelOutcomes ELSE {m[<<t, d>>]}

\* what the secret manager may do: fail, or hand out a payload
SecretOutcomes == {[ok |-> FALSE], [ok |-> TRUE, payload |-> <<>>], [ok |-> TRUE, payload |-> <<"key">>]}

\* a document of the source collection
SourceDoc(t, d) ==
    [k \in (IF t = Absent THEN {} ELSE {"Transcript"}) \cup (IF d = Absent THEN {} ELSE {"Date"})
        |-> IF k = "Transcript" THEN t ELSE d]

Transcripts == {Absent, <<>>, <<"texto">>}
DocDates == {Absent, DATE_MONDAY}

\* the dates written MM/DD/YYYY, days that no month has included
DigitChar(n) == <<"0", "1", "2", "3", "4", "5", "6", "7", "8", "9">>[n + 1]
TwoDigits(n) == <<DigitChar(n \div 10), DigitChar(n % 10)>>
FourDigits(n) == TwoDigits(n \div 100) \o TwoDigits(n % 100)
FormatDate(y, m, d) == TwoDigits(m) \o <<"/">> \o TwoDigits(d) \o <<"/">> \o FourDigits(y)

GridYears == {2024, 2025, 2100}
GridMonths == 1..12
GridDays == {1, 29, 30, 31}
GridDates == {FormatDate(y, m, d) : y \in GridYears, m \in GridMonths, d \in GridDays}

ReportDates == {DATE_DEFAULT, DATE_MONDAY, DATE_LEAP, DATE_NO_SUCH_DAY, DATE_ISO} \cup GridDates

SourceDocs == {SourceDoc(t, d) : t \in Transcripts, d \in DocDates}
PadDoc == SourceDoc(<<>>, DATE_MONDAY)

\* the number of documents without transcript that open the source collection
PadSizes == {0, BATCH_LIMIT - 1}

\* the documents that may follow the padding
TailDocs(p) ==
    IF p = 0 THEN SourceDocs
    ELSE {SourceDoc(<<>>, Absent), SourceDoc(<<"texto">>, DATE_MONDAY)}

\* ------------------------------------------------------------------ state

VARIABLES
    pc,               \* where the request handler (or the Extractor it called) stands
    response,         \* what the handler returned
    api_key,
    pad,              \* the padding of this source collection
    source,           \* the documents the stream has yielded so far
    doc_id, doc_data, transcript, report_date,
    extracted_data,
    batch,            \* the writes staged in the current batch
    batch_count, processed_count,
    committed,        \* the writes committed to DEST_COLLECTION, in order
    commits,          \* the size of every committed batch, in order
    exc,              \* the exception in flight, <<>> when none
    day_of_week_str, attempt, retry_delay,
    trace,            \* the model invocations and backoff sleeps of the Extractor call
                      \* in progress or just returned
    paced,            \* the time slept in pacing delays
    model,            \* the language model: any, or a fixed answer to every prompt
    previous          \* the run before this one, if any: its source and its writes

vars ==
    <<pc, response, api_key, pad, source, doc_id, doc_data, transcript, report_date,
      extracted_data, batch, batch_count, processed_count, committed, commits, exc,
      day_of_week_str, attempt, retry_delay, trace, paced, model, previous>>

\* what no step of a run changes
worldVars == <<pad, model, previous>>

runnerVars ==
    <<response, api_key, worldVars, source, doc_id, doc_data, transcript, report_date,
      batch, batch_count, processed_count, committed, commits, paced>>

extractorVars == <<day_of_week_str, attempt, retry_delay, trace>>

NoExc == <<>>
NoResponse == [kind |-> "none"]
NoData == [type |-> "None"]
NoPrevious == <<>>

\* only None counts as no credential, the empty string passes
Falsy_OnlyNone(s) == s = PyNone

Falsy(s) == s = PyNone \/ s = <<>>

Init ==
    /\ pc = "request"
    /\ response = NoResponse
    /\ api_key = PyNone
    /\ pad \in PadSizes
    /\ source = <<>>
    /\ doc_id = 0
    /\ doc_data = <<>>
    /\ transcript = <<>>
    /\ report_date = <<>>
    /\ extracted_data = NoData
    /\ batch = <<>>
    /\ batch_count = 0
    /\ processed_count = 0
    /\ committed = <<>>
    /\ commits = <<>>
    /\ exc = NoExc
    /\ day_of_week_str = "Desconocido"
    /\ attempt = 0
    /\ retry_delay = 0
    /\ trace = <<>>
    /\ paced = 0
    /\ model = AnyModel
    /\ previous = NoPrevious

\* -------------------------------------------------------------- Extractor

get_gemini_api_key(o) == IF o.ok THEN o.payload ELSE PyNone

\* the degraded annotation drops the exception's message
Degraded_NoMessage(msg) ==
    [type |-> "dict",
     d |-> [sintesis |-> <<"Error">>, tiempo |-> <<"Error">>, modo |-> <<"Error">>,
            circunstancia |-> <<"Error">>, alcaldia |-> <<"Error">>,
            es_anonima |-> <<"Error">>]]

\* the annotation of the outer except clause
Degraded(msg) ==
    [type |-> "dict",
     d |-> [sintesis |-> <<"Error:">> \o msg, tiempo |-> <<"Error">>, modo |-> <<"Error">>,
            circunstancia |-> <<"Error">>, alcaldia |-> <<"Error">>,
            es_anonima |-> <<"Error">>]]

\* the delay is not doubled
NextDelay_Same(d) == d

\* the backoff delay after a sleep of d
NextDelay(d) == d * 2

\* the bound on the attempts is off by one
ShouldRetry_OneMore(msg, n) == Has429(msg) /\ n < max_retries

\* the except clause of the retry loop: back off and try again, or raise e
ShouldRetry(msg, n) == Has429(msg) /\ n < max_retries - 1

\* the trace's entry for one model invocation: where its exception was raised (in
\* the model, in json.loads, or nowhere) and whether its message holds "429"
Invoked(raised, msg, text) ==
    [ev |-> "invoke", raised |-> raised, has429 |-> Has429(msg), text |-> text]

Slept(t) == [ev |-> "sleep", t |-> t]

\* synthesize_and_extract returns value to the statement after the call; its
\* local variables are gone
Return(value) ==
    /\ extracted_data' = value
    /\ pc' = "enrich"
    /\ day_of_week_str' = "Desconocido"
    /\ attempt' = 0
    /\ retry_delay' = 0

\* synthesize_and_extract, to the start of the retry loop
ExStart ==
    /\ pc = "ex_start"
    /\ IF Falsy(api_key)
       THEN Return(NoData)
       ELSE /\ day_of_week_str' = DayOfWeekStr(report_date)
            /\ attempt' = 0
            /\ retry_delay' = INITIAL_RETRY_DELAY
            /\ pc' = "ex_attempt"
            /\ UNCHANGED extracted_data
    /\ UNCHANGED <<runnerVars, exc, trace>>

\* one pass of the retry loop's try block
ExAttempt ==
    /\ pc = "ex_attempt"
    /\ \E o \in Answers(model, transcript, report_date) :
          IF o.kind = "raise"
          THEN /\ exc' = o.msg
               /\ trace' = Append(trace, Invoked("model", o.msg, <<>>))
               /\ pc' = "ex_inner_except"
               /\ UNCHANGED <<extracted_data, day_of_week_str, attempt, retry_delay>>
          ELSE LET r == JsonLoads(CleanContent(o.text))
               IN  IF r.ok
                   THEN /\ Return(r.value)
                        /\ trace' = Append(trace, Invoked("no", NoExc, o.text))
                        /\ UNCHANGED exc
                   ELSE /\ exc' = r.msg
                        /\ trace' = Append(trace, Invoked("json", r.msg, o.text))
                        /\ pc' = "ex_inner_except"
                        /\ UNCHANGED <<extracted_data, day_of_week_str, attempt, retry_delay>>
    /\ UNCHANGED runnerVars

ExInnerExcept ==
    /\ pc = "ex_inner_except"
    /\ IF ShouldRetry(exc, attempt)
       THEN /\ trace' = Append(trace, Slept(retry_delay))
            /\ retry_delay' = NextDelay(retry_delay)
            /\ attempt' = attempt + 1
            /\ exc' = NoExc
            /\ pc' = "ex_attempt"
       ELSE /\ pc' = "ex_outer_except"
            /\ UNCHANGED <<trace, retry_delay, attempt, exc>>
    /\ UNCHANGED <<runnerVars, extracted_data, day_of_week_str>>

\* the outer except clause lets the exception go on to the caller
ExOuterExcept_Reraise ==
    /\ pc = "ex_outer_except"
    /\ pc' = "except"
    /\ day_of_week_str' = "Desconocido"
    /\ attempt' = 0
    /\ retry_delay' = 0
    /\ UNCHANGED <<runnerVars, extracted_data, exc, trace>>

\* the outer except clause: the degraded annotation
ExOuterExcept ==
    /\ pc = "ex_outer_except"
    /\ Return(Degraded(exc))
    /\ exc' = NoExc
    /\ UNCHANGED <<runnerVars, trace>>

\* ----------------------------------------------------------------- Runner

StoreError == <<"503", "The", "service", "is", "currently", "unavailable">>
NoGet(t) == <<"'" \o t \o "'", "object", "has", "no", "attribute", "'get'">>
NoUpper == <<"'bool'", "object", "has", "no", "attribute", "'upper'">>

\* the branch for a record without transcript forgets the classification
NotApplicable_NoRegistro(data) ==
    LET d1 == Put(data, "Síntesis", <<"No Transcript available.">>)
        d2 == Put(d1, "Tiempo", <<"N/A">>)
        d3 == Put(d2, "Modo", <<"N/A">>)
        d4 == Put(d3, "Circunstancia", <<"N/A">>)
        d5 == Put(d4, "Alcaldía", <<"N/A">>)
    IN  Put(d5, "¿Es anónima?", <<"N/A">>)

\* the branch for a record without transcript
NotApplicable(data) ==
    LET d1 == Put(data, "Síntesis", <<"No Transcript available.">>)
        d2 == Put(d1, "Tiempo", <<"N/A">>)
        d3 == Put(d2, "Modo", <<"N/A">>)
        d4 == Put(d3, "Circunstancia", <<"N/A">>)
        d5 == Put(d4, "Alcaldía", <<"N/A">>)
        d6 == Put(d5, "¿Es anónima?", <<"N/A">>)
    IN  Put(d6, "Registro", <<"N/A">>)

\* the classification tests for NO instead of SI
Registro_Inverted(es_anonima) == IF es_anonima = <<"NO">> THEN <<"Denuncia">> ELSE <<"Aviso">>

\* "Aviso" if es_anonima == "SI" else "Denuncia"
Registro(es_anonima) == IF es_anonima = <<"SI">> THEN <<"Aviso">> ELSE <<"Denuncia">>

\* the anonymity flag is compared and stored as the model wrote it
Enriched_NoUpper(data, e) ==
    LET d1 == Put(data, "Síntesis", Get(e, "sintesis", <<>>))
        d2 == Put(d1, "Tiempo", Get(e, "tiempo", <<>>))
        d3 == Put(d2, "Modo", Get(e, "modo", <<>>))
        d4 == Put(d3, "Circunstancia", Get(e, "circunstancia", <<>>))
        d5 == Put(d4, "Alcaldía", Get(e, "alcaldia", <<>>))
        es_anonima == Get(e, "es_anonima", <<"NO">>)
        d6 == Put(d5, "¿Es anónima?", es_anonima)
    IN  Put(d6, "Registro", Registro(es_anonima))

\* the branch for a record whose extraction returned a non-empty dict e
Enriched(data, e) ==
    LET d1 == Put(data, "Síntesis", Get(e, "sintesis", <<>>))
        d2 == Put(d1, "Tiempo", Get(e, "tiempo", <<>>))
        d3 == Put(d2, "Modo", Get(e, "modo", <<>>))
        d4 == Put(d3, "Circunstancia", Get(e, "circunstancia", <<>>))
        d5 == Put(d4, "Alcaldía", Get(e, "alcaldia", <<>>))
        es_anonima == Upper(Get(e, "es_anonima", <<"NO">>))
        d6 == Put(d5, "¿Es anónima?", es_anonima)
    IN  Put(d6, "Registro", Registro(es_anonima))

\* the batch is committed one write late
BatchFull_OneLate(n) == n > BATCH_LIMIT

\* does the batch go to the store at the end of the loop body
BatchFull(n) == n >= BATCH_LIMIT

\* a single remaining write is left behind
BatchRemains_MoreThanOne(n) == n > 1

\* the last commit is sent whatever the batch holds
BatchRemains_Always(n) == n >= 0

\* does the batch go to the store after the loop
BatchRemains(n) == n > 0

\* the request reaches the handler
Request ==
    /\ pc = "request"
    /\ \E method \in {"GET", "POST"} :
          IF method = "GET"
          THEN /\ response' = [kind |-> "help", status |-> 200]
               /\ pc' = "done"
          ELSE /\ pc' = "get_key"
               /\ UNCHANGED response
    /\ UNCHANGED <<api_key, worldVars, source, doc_id, doc_data, transcript, report_date,
                   extracted_data, batch, batch_count, processed_count, committed,
                   commits, exc, extractorVars, paced>>

GetKey ==
    /\ pc = "get_key"
    /\ \E o \in SecretOutcomes :
          /\ api_key' = get_gemini_api_key(o)
          /\ IF Falsy(api_key')
             THEN /\ response' = [kind |-> "no_key", status |-> 500]
                  /\ pc' = "done"
             ELSE /\ pc' = "fetch"
                  /\ UNCHANGED response
    /\ UNCHANGED <<worldVars, source, doc_id, doc_data, transcript, report_date,
                   extracted_data, batch, batch_count, processed_count, committed,
                   commits, exc, extractorVars, paced>>

Fetch ==
    /\ pc = "fetch"
    /\ batch' = <<>>
    /\ batch_count' = 0
    /\ processed_count' = 0
    /\ pc' = "next_doc"
    /\ UNCHANGED <<response, api_key, worldVars, source, doc_id, doc_data, transcript,
                   report_date, extracted_data, committed, commits, exc,
                   extractorVars, paced>>

\* the source collection: free in a first run, the one of the run before after
\* that. StreamBound is the most documents it may hold, StreamEnd the fewest, and
\* Streamed(i) what its i-th document may be
StreamBound == IF previous = NoPrevious THEN pad + MaxTail ELSE Len(previous.source)
StreamEnd == IF previous = NoPrevious THEN pad ELSE Len(previous.source)
Streamed(i) ==
    IF previous # NoPrevious THEN {previous.source[i].data}
    ELSE IF i <= pad THEN {PadDoc} ELSE TailDocs(pad)

\* every record is sent to the Extractor
HasTranscript_Always(t) == TRUE

\* if transcript:
HasTranscript(t) == t # <<>>

\* the stream yields the next document
NextDoc ==
    /\ pc = "next_doc"
    /\ Len(source) < StreamBound
    /\ \E data \in Streamed(Len(source) + 1) :
          /\ source' = Append(source, [id |-> Len(source) + 1, data |-> data])
          /\ doc_id' = Len(source) + 1
          /\ doc_data' = data
          /\ transcript' = Get(data, "Transcript", <<>>)
          /\ report_date' = Get(data, "Date", DATE_DEFAULT)
    /\ pc' = IF HasTranscript(transcript') THEN "ex_start" ELSE "enrich"
    /\ UNCHANGED <<response, api_key, worldVars, extracted_data, batch, batch_count,
                   processed_count, committed, commits, exc, extractorVars, paced>>

\* the stream is exhausted
EndOfStream ==
    /\ pc = "next_doc"
    /\ Len(source) >= StreamEnd
    /\ pc' = "final"
    /\ UNCHANGED <<runnerVars, extracted_data, exc, extractorVars>>

\* reading the stream fails
StreamError ==
    /\ pc = "next_doc"
    /\ exc' = StoreError
    /\ pc' = "except"
    /\ UNCHANGED <<runnerVars, extracted_data, extractorVars>>

\* the derived fields of the record
Enrich ==
    /\ pc = "enrich"
    /\ IF HasTranscript(transcript)
       THEN IF Truthy(extracted_data)
            THEN IF extracted_data.type # "dict"
                 THEN /\ exc' = NoGet(extracted_data.type)
                      /\ pc' = "except"
                      /\ UNCHANGED doc_data
                 ELSE IF Get(extracted_data.d, "es_anonima", <<"NO">>) = PyTrue
                 THEN /\ exc' = NoUpper
                      /\ pc' = "except"
                      /\ UNCHANGED doc_data
                 ELSE /\ doc_data' = Enriched(doc_data, extracted_data.d)
                      /\ pc' = "stage"
                      /\ UNCHANGED exc
            ELSE /\ pc' = "stage"
                 /\ UNCHANGED <<doc_data, exc>>
       ELSE /\ doc_data' = NotApplicable(doc_data)
            /\ pc' = "stage"
            /\ UNCHANGED exc
    /\ trace' = <<>>
    /\ UNCHANGED <<response, api_key, worldVars, source, doc_id, transcript, report_date,
                   extracted_data, batch, batch_count, processed_count, committed,
                   commits, day_of_week_str, attempt, retry_delay, paced>>

\* the destination gives every write an identifier of its own
Stage_AutoId ==
    /\ pc = "stage"
    /\ batch' = Append(batch, [id |-> Len(committed) + Len(batch) + 1, data |-> doc_data])
    /\ batch_count' = batch_count + 1
    /\ processed_count' = processed_count + 1
    /\ pc' = "pace"
    /\ UNCHANGED <<response, api_key, worldVars, source, doc_id, doc_data, transcript,
                   report_date, extracted_data, committed, commits, exc,
                   extractorVars, paced>>

\* batch.set(dest_ref, doc_data)
Stage ==
    /\ pc = "stage"
    /\ batch' = Append(batch, [id |-> doc_id, data |-> doc_data])
    /\ batch_count' = batch_count + 1
    /\ processed_count' = processed_count + 1
    /\ pc' = "pace"
    /\ UNCHANGED <<response, api_key, worldVars, source, doc_id, doc_data, transcript,
                   report_date, extracted_data, committed, commits, exc,
                   extractorVars, paced>>

\* staging the write fails
StageError ==
    /\ pc = "stage"
    /\ exc' = StoreError
    /\ pc' = "except"
    /\ UNCHANGED <<runnerVars, extracted_data, extractorVars>>

\* only a record that went through the Extractor is followed by the delay
Pace_OnlyAfterExtraction ==
    /\ pc = "pace"
    /\ paced' = IF HasTranscript(transcript) THEN paced + PACING_DELAY ELSE paced
    /\ pc' = "check_batch"
    /\ UNCHANGED <<response, api_key, worldVars, source, doc_id, doc_data, transcript,
                   report_date, extracted_data, batch, batch_count, processed_count,
                   committed, commits, exc, extractorVars>>

\* time.sleep(2)
Pace ==
    /\ pc = "pace"
    /\ paced' = paced + PACING_DELAY
    /\ pc' = "check_batch"
    /\ UNCHANGED <<response, api_key, worldVars, source, doc_id, doc_data, transcript,
                   report_date, extracted_data, batch, batch_count, processed_count,
                   committed, commits, exc, extractorVars>>

\* batch.commit() succeeds: the whole batch reaches the destination
Commit ==
    /\ committed' = committed \o batch
    /\ commits' = Append(commits, Len(batch))

\* batch.commit() fails: nothing of the batch reaches the destination
CommitError ==
    /\ exc' = StoreError
    /\ pc' = "except"
    /\ UNCHANGED <<response, batch, batch_count, committed, commits>>

CheckBatch ==
    /\ pc = "check_batch"
    /\ IF BatchFull(batch_count)
       THEN \/ /\ Commit
               /\ batch' = <<>>
               /\ batch_count' = 0
               /\ pc' = "next_doc"
               /\ UNCHANGED <<exc, response>>
            \/ CommitError
       ELSE /\ pc' = "next_doc"
            /\ UNCHANGED <<batch, batch_count, committed, commits, exc, response>>
    /\ UNCHANGED <<api_key, worldVars, source, doc_id, doc_data, transcript, report_date,
                   extracted_data, processed_count, extractorVars, paced>>

\* after the loop: the remaining writes, and the answer
Final ==
    /\ pc = "final"
    /\ \/ /\ IF BatchRemains(batch_count) THEN Commit ELSE UNCHANGED <<committed, commits>>
          /\ response' = [kind |-> "complete", status |-> 200, count |-> processed_count]
          /\ pc' = "done"
          /\ UNCHANGED <<batch, batch_count, exc>>
       \/ /\ BatchRemains(batch_count)
          /\ CommitError
    /\ UNCHANGED <<api_key, worldVars, source, doc_id, doc_data, transcript, report_date,
                   extracted_data, processed_count, extractorVars, paced>>

\* the except clause sends what is staged before it answers
Except_CommitsRest ==
    /\ pc = "except"
    /\ response' = [kind |-> "error", status |-> 500, msg |-> exc]
    /\ exc' = NoExc
    /\ pc' = "done"
    /\ Commit
    /\ UNCHANGED <<api_key, worldVars, source, doc_id, doc_data, transcript, report_date,
                   extracted_data, batch, batch_count, processed_count,
                   extractorVars, paced>>

\* the handler's except clause
Except ==
    /\ pc = "except"
    /\ response' = [kind |-> "error", status |-> 500, msg |-> exc]
    /\ exc' = NoExc
    /\ pc' = "done"
    /\ UNCHANGED <<api_key, worldVars, source, doc_id, doc_data, transcript, report_date,
                   extracted_data, batch, batch_count, processed_count, committed,
                   commits, extractorVars, paced>>

Next ==
    \/ Request
    \/ GetKey
    \/ Fetch
    \/ NextDoc
    \/ EndOfStream
    \/ StreamError
    \/ ExStart
    \/ ExAttempt
    \/ ExInnerExcept
    \/ ExOuterExcept
    \/ Enrich
    \/ Stage
    \/ StageError
    \/ Pace
    \/ CheckBatch
    \/ Final
    \/ Except

Spec == Init /\ [][Next]_vars

\* two runs, one after the other, over one source collection and with a model
\* that answers the same prompt the same way
InitTwice ==
    /\ pc = "request"
    /\ response = NoResponse
    /\ api_key = PyNone
    /\ pad = 0
    /\ source = <<>>
    /\ doc_id = 0
    /\ doc_data = <<>>
    /\ transcript = <<>>
    /\ report_date = <<>>
    /\ extracted_data = NoData
    /\ batch = <<>>
    /\ batch_count = 0
    /\ processed_count = 0
    /\ committed = <<>>
    /\ commits = <<>>
    /\ exc = NoExc
    /\ day_of_week_str = "Desconocido"
    /\ attempt = 0
    /\ retry_delay = 0
    /\ trace = <<>>
    /\ paced = 0
    /\ model \in FixedModels
    /\ previous = NoPrevious

\* the next request arrives after a run that succeeded: the destination keeps
\* what was written, everything else starts anew
Rerun ==
    /\ pc = "done"
    /\ response.kind = "complete"
    /\ previous = NoPrevious
    /\ previous' = [source |-> source, committed |-> committed]
    /\ pc' = "request"
    /\ response' = NoResponse
    /\ api_key' = PyNone
    /\ source' = <<>>
    /\ doc_id' = 0
    /\ doc_data' = <<>>
    /\ transcript' = <<>>
    /\ report_date' = <<>>
    /\ extracted_data' = NoData
    /\ batch' = <<>>
    /\ batch_count' = 0
    /\ processed_count' = 0
    /\ trace' = <<>>
    /\ paced' = 0
    /\ UNCHANGED <<pad, model, committed, commits, exc, day_of_week_str, attempt, retry_delay>>

NextTwice == Next \/ Rerun

SpecTwice == InitTwice /\ [][NextTwice]_vars

\* one call of synthesize_and_extract on its own, for any arguments
InitExtract ==
    /\ pc = "ex_start"
    /\ response = NoResponse
    /\ api_key \in {get_gemini_api_key(o) : o \in SecretOutcomes}
    /\ pad = 0
    /\ source = <<>>
    /\ doc_id = 0
    /\ doc_data = <<>>
    /\ transcript \in {<<"texto">>, <<>>}
    /\ report_date \in ReportDates
    /\ extracted_data = NoData
    /\ batch = <<>>
    /\ batch_count = 0
    /\ processed_count = 0
    /\ committed = <<>>
    /\ commits = <<>>
    /\ exc = NoExc
    /\ day_of_week_str = "Desconocido"
    /\ attempt = 0
    /\ retry_delay = 0
    /\ trace = <<>>
    /\ paced = 0
    /\ model = AnyModel
    /\ previous = NoPrevious

NextExtract ==
    \/ ExStart
    \/ ExAttempt
    \/ ExInnerExcept
    \/ ExOuterExcept

SpecExtract == InitExtract /\ [][NextExtract]_vars

\* the interpreter keeps running the call: a step that can be taken is taken
SpecExtractFair == SpecExtract /\ WF_vars(NextExtract)

\* the state the program is in at every step
TypeOK ==
    /\ batch_count = Len(batch)
    /\ pc # "done" => processed_count = Len(committed) + Len(batch)
    /\ Len(source) <= StreamBound

\* ----------------------------------------------------------------- claims

DerivedFields ==
    {"Síntesis", "Tiempo", "Modo", "Circunstancia", "Alcaldía", "¿Es anónima?", "Registro"}

ExtractorPcs == {"ex_start", "ex_attempt", "ex_inner_except", "ex_outer_except"}

\* the write staged last
LastStaged == batch[Len(batch)]

\* the document the stream yielded last, as the source holds it
CurrentSource == source[Len(source)].data

\* how often an identifier occurs among the committed writes
TimesCommitted(id) == Cardinality({j \in DOMAIN committed : committed[j].id = id})

\* the annotation of the outer except clause, whatever its message
IsDegraded(v) ==
    /\ v.type = "dict"
    /\ DOMAIN v.d = AnnotationKeys
    /\ v.d.sintesis # <<>>
    /\ Head(v.d.sintesis) = "Error:"
    /\ \A k \in AnnotationKeys \ {"sintesis"} : v.d[k] = <<"Error">>

Invocations == {i \in DOMAIN trace : trace[i].ev = "invoke"}

RECURSIVE TotalSlept(_)
TotalSlept(t) ==
    IF t = <<>> THEN 0
    ELSE (IF Head(t).ev = "sleep" THEN Head(t).t ELSE 0) + TotalSlept(Tail(t))

\* C1: a run that ends in success has committed exactly one write under every source
\* identifier, none under any other identifier, and reports the number of source
\* records as its count.
C1_OneWritePerSourceRecord ==
    response.kind = "complete" =>
        /\ response.status = 200
        /\ \A i \in DOMAIN source : TimesCommitted(source[i].id) = 1
        /\ \A j \in DOMAIN committed : \E i \in DOMAIN source : source[i].id = committed[j].id
        /\ \A j \in DOMAIN committed : committed[j].id = j
        /\ response.count = Len(source)

C1_Witness ==
    /\ response.kind = "complete"
    /\ response.count = BATCH_LIMIT + 1
    /\ TimesCommitted(1) = 1
    /\ TimesCommitted(BATCH_LIMIT + 1) = 1

\* C2: no record is staged onto a batch of 400 writes: the 400th write makes the
\* end of the loop body commit the batch, once, and start an empty one; every such
\* commit holds 400 writes; and a successful run whose last batch holds k writes,
\* 0 < k < 400, commits that batch once, after the stream's end.
C2_BatchBoundary ==
    /\ pc \in {"next_doc", "enrich", "stage", "final"} \cup ExtractorPcs
          => batch_count < BATCH_LIMIT
    /\ pc # "done"
          => /\ \A i \in DOMAIN commits : commits[i] = BATCH_LIMIT
             /\ Len(commits) = (processed_count - batch_count) \div BATCH_LIMIT
             /\ processed_count - batch_count = Len(committed)
    /\ response.kind = "complete"
          => LET full == Len(source) \div BATCH_LIMIT
                 k == Len(source) % BATCH_LIMIT
             IN  /\ Len(commits) = full + (IF k > 0 THEN 1 ELSE 0)
                 /\ \A i \in 1..full : commits[i] = BATCH_LIMIT
                 /\ k > 0 => commits[full + 1] = k
                 /\ Len(committed) = Len(source)

C2_Witness ==
    /\ response.kind = "complete"
    /\ commits = <<BATCH_LIMIT, 1>>

\* C3: one Extractor call invokes the model at most 3 times, sleeps 5 before the
\* second invocation and 10 before the third, and never sleeps after its last
\* invocation; when two failed invocations are followed by one that succeeds, the
\* call returns what that one parsed, having slept 5 + 10.
C3_RetrySchedule ==
    LET schedule ==
            <<"invoke", INITIAL_RETRY_DELAY, "invoke", 2 * INITIAL_RETRY_DELAY, "invoke">>
    IN  /\ Cardinality(Invocations) <= max_retries
        /\ Len(trace) <= Len(schedule)
        /\ \A i \in DOMAIN trace :
              IF i % 2 = 1
              THEN trace[i].ev = "invoke"
              ELSE trace[i] = Slept(schedule[i]) /\ trace[i - 1].has429
        /\ pc \notin ExtractorPcs /\ trace # <<>> => trace[Len(trace)].ev = "invoke"
        /\ pc = "enrich" /\ Len(trace) = 5 /\ trace[5].raised = "no"
              => /\ TotalSlept(trace) = 15
                 /\ extracted_data \in {BlockValue(b) : b \in ValidBlocks}
                 /\ exc = NoExc

C3_Witness ==
    /\ pc = "enrich"
    /\ Len(trace) = 5
    /\ trace[1].raised = "model"
    /\ trace[3].raised = "model"
    /\ trace[5].raised = "no"
    /\ extracted_data = BlockValue("{SI}")

\* the exceptions the handler's except clause is reached with when no extraction
\* failure got that far
RunnerErrors == {StoreError, NoUpper, NoGet("list")}

\* the latest model invocation of the call ended in an exception
LastInvocationFailed == trace # <<>> /\ trace[Len(trace)].raised # "no"

\* C4: a failed extraction does not stop the run: the Extractor hands the Runner a
\* degraded annotation, no model or parse failure reaches the handler's except
\* clause, the degraded annotation does not make the enrichment fail, and the
\* record is staged under its identifier with the degraded annotation's values.
C4_FailureKeepsRunGoing ==
    /\ pc = "enrich" /\ LastInvocationFailed => IsDegraded(extracted_data) /\ exc = NoExc
    /\ pc = "except" => exc \in RunnerErrors
    /\ response.kind = "error" => response.msg \in RunnerErrors
    /\ pc = "except" /\ exc \in {NoUpper, NoGet("list")} => ~IsDegraded(extracted_data)
    /\ pc = "pace" /\ transcript # <<>> /\ IsDegraded(extracted_data)
          => /\ LastStaged.id = doc_id
             /\ LastStaged.data["Síntesis"] = extracted_data.d.sintesis
             /\ LastStaged.data["Tiempo"] = <<"Error">>
             /\ LastStaged.data["Modo"] = <<"Error">>
             /\ LastStaged.data["Circunstancia"] = <<"Error">>
             /\ LastStaged.data["Alcaldía"] = <<"Error">>
             /\ \A k \in DOMAIN CurrentSource : LastStaged.data[k] = CurrentSource[k]

\* a run that went on after a failed extraction: the degraded record and the
\* record after it are both committed
C4_Witness ==
    /\ response.kind = "complete"
    /\ Len(committed) = 2
    /\ "Síntesis" \in DOMAIN committed[1].data
    /\ committed[1].data["Síntesis"] = <<"Error:", "500", "Internal", "error">>
    /\ committed[2].id = 2

\* the first three invocations of the call each ended in a rate-limit error of the model
ThreeRateLimits ==
    /\ {1, 3, 5} \subseteq DOMAIN trace
    /\ \A i \in {1, 3, 5} : trace[i].raised = "model" /\ trace[i].has429

\* C5, as stated: after rate-limit errors on all 3 attempts the call ends with an
\* error raised to the Runner, not with a returned annotation.
C5_ExhaustionRaises ==
    ThreeRateLimits /\ pc \notin ExtractorPcs => pc = "except" /\ exc # NoExc

\* C5, amended: after rate-limit errors on all 3 attempts the call makes no further
\* attempt and returns the degraded annotation that carries the rate-limit error's
\* message; nothing is raised to the Runner.
C5_ExhaustionDegrades ==
    ThreeRateLimits /\ pc \notin {"ex_attempt", "ex_inner_except"}
        => /\ Len(trace) = 5
           /\ pc \in {"ex_outer_except", "enrich"}
           /\ pc = "enrich"
                 => /\ extracted_data = Degraded(<<"429", "Resource", "exhausted">>)
                    /\ exc = NoExc

C5_Witness ==
    /\ ThreeRateLimits
    /\ pc = "enrich"
    /\ IsDegraded(extracted_data)

\* the three ways a call ends
ReturnedParsed ==
    /\ trace # <<>>
    /\ trace[Len(trace)].raised = "no"
    /\ extracted_data \in {BlockValue(b) : b \in ValidBlocks}

ReturnedDegraded ==
    /\ LastInvocationFailed
    /\ IsDegraded(extracted_data)

ReturnedEmpty ==
    /\ trace = <<>>
    /\ extracted_data = NoData

C6_Returned ==
    /\ pc \in ExtractorPcs \cup {"enrich"}
    /\ attempt < max_retries
    /\ pc = "enrich"
          => /\ exc = NoExc
             /\ ReturnedParsed \/ ReturnedDegraded \/ ReturnedEmpty
             /\ ~(ReturnedParsed /\ ReturnedDegraded)
             /\ ~(ReturnedParsed /\ ReturnedEmpty)
             /\ ~(ReturnedDegraded /\ ReturnedEmpty)
             /\ api_key \in {PyNone, <<>>} <=> ReturnedEmpty

\* C6: every Extractor call ends, whatever the model does and whatever the report
\* date is, and it ends by returning, never by raising: with what it parsed, with a
\* degraded annotation, or, when there is no credential, with the empty result.
C6_ExtractorAlwaysReturns == []C6_Returned /\ <>(pc = "enrich")

C6_Witness ==
    /\ pc = "enrich"
    /\ ReturnedDegraded
    /\ report_date = DATE_NO_SUCH_DAY
    /\ Len(trace) = 3

\* the anonymity flag as the model wrote it
RawFlag == Get(extracted_data.d, "es_anonima", <<"NO">>)

\* C7: a record with a transcript whose extraction returned an annotation gets the
\* annotation's summary, time, mode, circumstance and locality, the annotation's
\* anonymity flag in upper case, and Registro "Aviso" exactly when that flag,
\* whatever its case, is "SI", "Denuncia" otherwise; its source fields stay.
C7_EnrichedFromAnnotation ==
    pc = "stage" /\ transcript # <<>> /\ Truthy(extracted_data)
        => /\ extracted_data.type = "dict"
           /\ doc_data["Síntesis"] = Get(extracted_data.d, "sintesis", <<>>)
           /\ doc_data["Tiempo"] = Get(extracted_data.d, "tiempo", <<>>)
           /\ doc_data["Modo"] = Get(extracted_data.d, "modo", <<>>)
           /\ doc_data["Circunstancia"] = Get(extracted_data.d, "circunstancia", <<>>)
           /\ doc_data["Alcaldía"] = Get(extracted_data.d, "alcaldia", <<>>)
           /\ doc_data["¿Es anónima?"] = Upper(RawFlag)
           /\ doc_data["Registro"] \in {<<"Aviso">>, <<"Denuncia">>}
           /\ doc_data["Registro"] = <<"Aviso">> <=> RawFlag \in {<<"SI">>, <<"si">>}
           /\ \A k \in DOMAIN CurrentSource : doc_data[k] = CurrentSource[k]

C7_Witness ==
    /\ pc = "stage"
    /\ transcript # <<>>
    /\ extracted_data = BlockValue("{si}")
    /\ doc_data["Registro"] = <<"Aviso">>

\* C8, as stated: a record without transcript has "N/A" in all six derived fields
\* and in Registro.
C8_AllNotApplicable ==
    pc = "stage" /\ transcript = <<>>
        => \A k \in DerivedFields : k \in DOMAIN doc_data /\ doc_data[k] = <<"N/A">>

\* C8, amended: a record without transcript has "No Transcript available." as its
\* synthesis and "N/A" in the five other derived fields and in Registro; its
\* source fields stay.
C8_NotApplicableButSynthesis ==
    pc = "stage" /\ transcript = <<>>
        => /\ DerivedFields \subseteq DOMAIN doc_data
           /\ doc_data["Síntesis"] = <<"No Transcript available.">>
           /\ \A k \in DerivedFields \ {"Síntesis"} : doc_data[k] = <<"N/A">>
           /\ \A k \in DOMAIN CurrentSource : doc_data[k] = CurrentSource[k]

C8_Witness ==
    /\ pc = "stage"
    /\ transcript = <<>>
    /\ "Transcript" \notin DOMAIN CurrentSource
    /\ doc_data["Registro"] = <<"N/A">>

\* C9: every staged record holds its source record's fields, the six derived
\* fields and Registro.
C9_StagedIsEnriched ==
    \A i \in DOMAIN batch :
        /\ DerivedFields \subseteq DOMAIN batch[i].data
        /\ DOMAIN source[batch[i].id].data \subseteq DOMAIN batch[i].data

\* C10: without a credential the run ends at once with status 500: no document is
\* read, the model is not invoked, nothing is staged and nothing is committed.
C10_NoCredentialNoRun ==
    /\ pc \notin {"request", "get_key"} /\ response.kind # "help" /\ api_key \in {PyNone, <<>>}
          => /\ pc = "done"
             /\ response = [kind |-> "no_key", status |-> 500]
             /\ source = <<>>
             /\ trace = <<>>
             /\ batch = <<>>
             /\ processed_count = 0
             /\ committed = <<>>
             /\ commits = <<>>
    /\ response.kind = "no_key" => api_key \in {PyNone, <<>>}

C10_Witness ==
    /\ response.kind = "no_key"
    /\ api_key = PyNone
    /\ pc = "done"

\* a is the beginning of b
IsPrefix(a, b) == Len(a) <= Len(b) /\ SubSeq(b, 1, Len(a)) = a

\* what a failed run leaves behind: status 500, whole batches of the first source
\* records in the destination, and none of the writes of the batch in progress
C11_FailedRun ==
    response.kind = "error"
        => /\ pc = "done"
           /\ response.status = 500
           /\ \A i \in DOMAIN commits : commits[i] = BATCH_LIMIT
           /\ Len(committed) = BATCH_LIMIT * Len(commits)
           /\ \A j \in DOMAIN committed :
                 committed[j].id = source[j].id
           /\ \A i \in DOMAIN batch : TimesCommitted(batch[i].id) = 0

\* from the exception on, the only step is the answer: no record is read or
\* staged and nothing is committed; and what is committed stays committed
C11_FailedStep ==
    /\ IsPrefix(committed, committed')
    /\ IsPrefix(commits, commits')
    /\ pc \in {"except", "done"}
          => /\ pc' = "done"
             /\ UNCHANGED <<source, batch, processed_count, committed, commits, trace>>
    /\ pc = "except" => response'.kind = "error" /\ response'.status = 500

\* C11: an exception in the run loop (reading the stream, enriching, staging or
\* committing) ends the run with status 500; no later record is processed, no
\* further commit happens, the batches committed before stay in the destination
\* and the writes of the batch in progress are never committed.
C11_ExceptionEndsRun == []C11_FailedRun /\ [][C11_FailedStep]_vars

\* a failure after the first batch was committed, with a write in progress
C11_Witness ==
    /\ response.kind = "error"
    /\ commits = <<BATCH_LIMIT>>
    /\ Len(batch) = 1
    /\ batch[1].id = BATCH_LIMIT + 1

\* the marker that carries an exception's message
ErrorMarker(msg) == <<"Error:">> \o msg

\* the failures that are not rate-limit errors: a model error without "429" and
\* a response that json.loads rejects
PlainFailures ==
    {m \in ModelErrors : ~Has429(m)}
        \cup {JsonLoads(CleanContent(t)).msg :
                t \in {x \in ResponseTexts : ~JsonLoads(CleanContent(x)).ok}}

\* C13 as stated: the degraded annotation carries the failure's message in each of
\* its six fields
C13_EveryFieldCarriesMessage ==
    [][pc = "ex_outer_except"
          => \A k \in AnnotationKeys : extracted_data'.d[k] = ErrorMarker(exc)]_vars

\* C13: on a failure that is not retried the Extractor returns the degraded
\* annotation, whose sintesis is the marker "Error: <message>" with the message of
\* the failure and whose five other fields are the bare marker "Error".
C13_SynthesisCarriesMessage ==
    [][pc = "ex_outer_except"
          => /\ pc' = "enrich"
             /\ extracted_data'.type = "dict"
             /\ DOMAIN extracted_data'.d = AnnotationKeys
             /\ extracted_data'.d.sintesis = ErrorMarker(exc)
             /\ \A k \in AnnotationKeys \ {"sintesis"} : extracted_data'.d[k] = <<"Error">>]_vars

\* the Extractor returned after one attempt that was not rate-limited, with each
\* kind of failure
C13_Witness ==
    /\ pc = "enrich"
    /\ Len(trace) = 1
    /\ trace[1].raised = "json"
    /\ \E m \in PlainFailures : extracted_data = Degraded(m)

\* C14: within one Extractor call, an attempt is followed by a backoff delay or by
\* another model invocation only when it failed with a rate-limit error of the
\* model; an attempt that failed otherwise (a model error that is not
\* rate-limiting, or a response that json.loads rejects, whatever the message) is
\* the last event of the call.
C14_OnlyRateLimitsRetry ==
    \A i \in Invocations :
        ~(trace[i].raised = "model" /\ trace[i].has429) => i = Len(trace)

\* C15: the batch in progress never holds more than 400 writes, and every batch
\* committed holds between 1 and 400 writes: no commit is empty, whatever the size
\* of the source (none, or an exact multiple of 400, included).
C15_BatchSizes ==
    /\ Len(batch) <= BATCH_LIMIT
    /\ batch_count <= BATCH_LIMIT
    /\ pc # "done" => batch_count = Len(batch)
    /\ \A i \in DOMAIN commits : commits[i] \in 1..BATCH_LIMIT

\* a successful run over exactly 400 records: one commit, of 400
C15_Witness ==
    /\ response.kind = "complete"
    /\ Len(source) = BATCH_LIMIT
    /\ commits = <<BATCH_LIMIT>>

\* the calendar, by Zeller's congruence: 0 is Saturday
Zeller(y, m, d) ==
    LET mm == IF m < 3 THEN m + 12 ELSE m
        yy == IF m < 3 THEN y - 1 ELSE y
        K == yy % 100
        J == yy \div 100
    IN  (d + ((13 * (mm + 1)) \div 5) + K + (K \div 4) + (J \div 4) + 5 * J) % 7

WeekdayNames == <<"Sábado", "Domingo", "Lunes", "Martes", "Miércoles", "Jueves", "Viernes">>

MonthLengths == <<31, 28, 31, 30, 31, 30, 31, 31, 30, 31, 30, 31>>

OnCalendar(y, m, d) ==
    \/ d <= MonthLengths[m]
    \/ m = 2 /\ d = 29 /\ (y % 400 = 0 \/ (y % 4 = 0 /\ y % 100 # 0))

\* the dates of the calendar among the report dates, each with its text
CalendarDates ==
    {[text |-> FormatDate(t[1], t[2], t[3]), y |-> t[1], m |-> t[2], d |-> t[3]] :
        t \in {x \in GridYears \X GridMonths \X GridDays : OnCalendar(x[1], x[2], x[3])}}
        \cup {[text |-> DATE_LEAP, y |-> 2024, m |-> 2, d |-> 29],
              [text |-> DATE_MONDAY, y |-> 2025, m |-> 3, d |-> 10]}

\* the label a report date should get
WeekdayLabel(date) ==
    IF \E c \in CalendarDates : c.text = date
    THEN LET c == CHOOSE c \in CalendarDates : c.text = date
         IN  WeekdayNames[Zeller(c.y, c.m, c.d) + 1]
    ELSE "Desconocido"

C16_Label ==
    /\ pc \in ExtractorPcs \ {"ex_start"} => day_of_week_str = WeekdayLabel(report_date)
    /\ pc \in ExtractorPcs \ {"ex_start"} /\ report_date = DATE_MONDAY => day_of_week_str = "Lunes"

C16_Proceeds ==
    pc = "ex_start" /\ ~Falsy(api_key)
        => /\ pc' = "ex_attempt"
           /\ exc' = NoExc
           /\ day_of_week_str' = WeekdayLabel(report_date)

\* C16: the weekday label computed from report_date read as month/day/year is the
\* weekday of that date on the calendar (03/10/2025 gives Lunes); a date that is
\* missing or cannot be read gives Desconocido, no exception is raised, and the
\* call goes on to the model invocation.
C16_WeekdayLabel == []C16_Label /\ [][C16_Proceeds]_vars

\* the call stands before the model invocation with the labels of 03/10/2025, of a
\* leap day, and of a date that cannot be read
C16_Witness ==
    /\ pc = "ex_attempt"
    /\ \/ report_date = DATE_MONDAY /\ day_of_week_str = "Lunes"
       \/ report_date = DATE_DEFAULT /\ day_of_week_str = "Desconocido"

\* the runner stands after the staging of the current record
AfterStaging == pc \in {"pace", "check_batch"}

C18_NoExtraction ==
    transcript = <<>>
        => /\ pc \notin ExtractorPcs
           /\ trace = <<>>
           /\ AfterStaging
                 => /\ batch # <<>>
                    /\ LastStaged.id = doc_id
                    /\ processed_count = Len(source)

C18_Staged == pc = "enrich" /\ transcript = <<>> => pc' = "stage" /\ exc' = NoExc

\* C18: for a source record whose transcript is empty or absent the Extractor is
\* not entered: no model invocation and no backoff delay happens for it, and the
\* record goes on to be staged under its identifier and counted.
C18_EmptyTranscriptSkipsExtraction == []C18_NoExtraction /\ [][C18_Staged]_vars

\* a record without Transcript field, staged and counted after a record that went
\* through the Extractor
C18_Witness ==
    /\ pc = "check_batch"
    /\ Len(source) = 2
    /\ HasTranscript(Get(source[1].data, "Transcript", <<>>))
    /\ "Transcript" \notin DOMAIN CurrentSource
    /\ LastStaged.id = 2
    /\ processed_count = 2

\* the record of the current document, enriched or already staged, after an
\* extraction that ended in the degraded annotation
DegradedRecord(data) ==
    /\ data["Registro"] = <<"Denuncia">>
    /\ data["¿Es anónima?"] = <<"ERROR">>
    /\ data["Registro"] = Registro(<<"NO">>)

\* C19: a record with a transcript whose extraction returned the degraded
\* annotation is written with Registro "Denuncia" and the flag "ERROR": it is not
\* an "Aviso", and its Registro is the one of a report extracted as not anonymous.
C19_DegradedIsDenuncia ==
    HasTranscript(transcript) /\ IsDegraded(extracted_data)
        => /\ pc = "stage" => DegradedRecord(doc_data)
           /\ AfterStaging => LastStaged.id = doc_id /\ DegradedRecord(LastStaged.data)

\* the write of a record whose extraction gave up after rate-limit errors
C19_Witness ==
    /\ pc = "check_batch"
    /\ HasTranscript(transcript)
    /\ IsDegraded(extracted_data)
    /\ Has429(extracted_data.d.sintesis)
    /\ LastStaged.data["Registro"] = <<"Denuncia">>
    /\ LastStaged.data["Síntesis"] = extracted_data.d.sintesis

\* the number of records whose pacing delay is over
PacedRecords == processed_count - (IF pc = "pace" THEN 1 ELSE 0)

C20_OnePerRecord ==
    /\ paced = PACING_DELAY * PacedRecords
    /\ response.kind = "complete" => paced = PACING_DELAY * Len(source)

\* the delay follows the staging and comes before the test of the batch and the
\* next record; time passes nowhere else but in the backoff of the Extractor
C20_Step ==
    /\ pc = "stage" /\ processed_count' # processed_count => pc' = "pace"
    /\ pc = "pace" => pc' = "check_batch" /\ paced' = paced + PACING_DELAY
    /\ paced' # paced => pc = "pace"
    /\ pc' \in {"check_batch"} => pc = "pace"
    /\ pc = "check_batch" => pc' \in {"next_doc", "except"}
    /\ Len(trace') > Len(trace) /\ trace'[Len(trace')].ev = "sleep" => pc = "ex_inner_except"

\* C20: each staging of a record, one without transcript included, is followed by
\* exactly one pacing delay of 2, before the batch is tested and before the next
\* record is read; the only other delays are the backoff delays of the Extractor;
\* a successful run over N records has N pacing delays.
C20_PacingDelays == []C20_OnePerRecord /\ [][C20_Step]_vars

\* a successful run over a record with a transcript and one without
C20_Witness ==
    /\ response.kind = "complete"
    /\ Len(source) = 2
    /\ HasTranscript(Get(source[1].data, "Transcript", <<>>))
    /\ ~HasTranscript(Get(source[2].data, "Transcript", <<>>))
    /\ paced = PACING_DELAY * 2

\* the opening markers of a code fence: with the language tag, and without
FenceOpenings == {FenceOpen, FenceClose}

\* the last model invocation of the call answered with this text
Answered(text) ==
    /\ trace # <<>>
    /\ trace[Len(trace)].ev = "invoke"
    /\ trace[Len(trace)].raised # "model"
    /\ trace[Len(trace)].text = text

\* what the call returns when the response is block b without a fence
Unfenced(b) == JsonLoads(CleanContent(Bare(b))).value

\* C17: for every JSON object, the response that holds it between an opening and a
\* closing code-fence marker gives the same extraction result as the response that
\* holds it bare.
C17_FenceIsTransparent ==
    \A b \in ObjectBlocks : \A open \in FenceOpenings :
        pc = "enrich" /\ Answered(Wrapped(open, b)) => extracted_data = Unfenced(b)

\* the same for the opening marker with the language tag only
C17_TaggedFenceIsTransparent ==
    \A b \in ObjectBlocks :
        pc = "enrich" /\ Answered(Fenced(b)) => extracted_data = Unfenced(b)

\* the destination collection after the writes w: the last write of each identifier
Dest(w) ==
    LET ids == {w[i].id : i \in DOMAIN w}
        last(id) == CHOOSE i \in DOMAIN w : w[i].id = id /\ \A j \in DOMAIN w : w[j].id = id => j <= i
    IN  [id \in ids |-> w[last(id)].data]

SecondRunComplete == previous # NoPrevious /\ pc = "done" /\ response.kind = "complete"

\* C12: over an unchanged source collection and with a model that answers the same
\* prompt the same way, the destination after two successful runs is the
\* destination after the first: the same identifiers, each with the same content.
C12_Idempotent ==
    SecondRunComplete
        => /\ Dest(committed) = Dest(previous.committed)
           /\ DOMAIN Dest(committed) = {previous.source[i].id : i \in DOMAIN previous.source}
           /\ source = previous.source

\* two successful runs over two records, one of them enriched from the model's answer
C12_Witness ==
    /\ SecondRunComplete
    /\ Len(previous.committed) = 2
    /\ Len(committed) = 4
    /\ \E i \in DOMAIN committed :
          /\ "Registro" \in DOMAIN committed[i].data
          /\ committed[i].data["Registro"] = <<"Aviso">>

====
